---- MODULE Spec2Model ----
(***************************************************************************)
(* A state-machine model of the maze generators of lab/basura:             *)
(*   geometry.py     Direction                                             *)
(*   mazegen.py      Cell, Maze (construction, symmetric DFS carving,      *)
(*                   reconciliation pass, classification, dead-end repair) *)
(*   tetris_maze.py  TetrisMaze (the piece pipeline)                       *)
(*   render.py       the key handlers that regenerate a Maze               *)
(* Cells are positions <<x, y>>; a grid is a function from positions.      *)
(***************************************************************************)
EXTENDS Integers, Sequences, FiniteSets, TLC

\* ------------------------------------------------------------------ bounds
\* Largest width and largest height a Maze is constructed with.
MaxDim == 8
\* generate() is run on grids of at most this many cells.
MaxCells == 9
\* generate_tetris_grid draws a piece other than SQUARE at most this many times.
MaxOpenPieces == 1
\* create_tunnels samples among the first so many candidates.
MaxSampleIndex == 3
\* The largest number of cells of a maze whose keys are pressed, and of a maze
\* under the fair specification.
MaxSmallCells == 4
\* The largest number of cells of a Maze that the R key regenerates.
MaxRegenerateCells == 6
\* The coordinates looked up go from -MaxCoordinate to MaxCoordinate.
MaxCoordinate == 9

\* ------------------------------------------------------------ geometry.py
UP == "UP"
DOWN == "DOWN"
LEFT == "LEFT"
RIGHT == "RIGHT"
None == "None"

Direction == {UP, DOWN, LEFT, RIGHT}

\* The directions in the order Left, Right, Up, Down.
Direction_all_horizontal_first == <<LEFT, RIGHT, UP, DOWN>>

\* Direction.all(): the stable order Up, Down, Left, Right.
Direction_all == <<UP, DOWN, LEFT, RIGHT>>

\* Direction.value: the unit vector of a direction.
value(d) ==
  CASE d = UP -> <<0, -1>>
    [] d = DOWN -> <<0, 1>>
    [] d = LEFT -> <<-1, 0>>
    [] d = RIGHT -> <<1, 0>>

opposite(d) ==
  CASE d = UP -> DOWN
    [] d = DOWN -> UP
    [] d = LEFT -> RIGHT
    [] d = RIGHT -> LEFT

from_vector(dx, dy) ==
  IF dx = 1 /\ dy = 0 THEN RIGHT
  ELSE IF dx = -1 /\ dy = 0 THEN LEFT
  ELSE IF dx = 0 /\ dy = 1 THEN DOWN
  ELSE IF dx = 0 /\ dy = -1 THEN UP
  ELSE None

\* ------------------------------------------------------------- mazegen.py
NONE == "NONE"
HORIZONTAL == "HORIZONTAL"
VERTICAL == "VERTICAL"
ROTATIONAL == "ROTATIONAL"
BOTH == "BOTH"

\* list(Symmetry): the members in definition order.
Symmetry == <<NONE, HORIZONTAL, VERTICAL, ROTATIONAL, BOTH>>

SymmetrySet == {Symmetry[i] : i \in 1..Len(Symmetry)}

VARIABLES
  pc,               \* where the program is: see the actions
  maze_class,       \* the class of the maze: "Maze" or "TetrisMaze"
  width, height,    \* Maze.width, Maze.height
  wrap,             \* Maze.wrap
  symmetry,         \* Maze.symmetry
  walls,            \* Cell.walls of every cell
  visited,          \* Cell.visited of every cell
  is_intersection,  \* Cell.is_intersection of every cell
  is_dead_end,      \* Cell.is_dead_end of every cell
  start_cell,       \* generate(): start_cell
  stack,            \* generate(): the DFS stack
  changed,          \* _remove_dead_ends(): changed
  cursor,           \* _remove_dead_ends(): index of the next cell of the sweep
  repairs,          \* number of _remove_dead_ends() calls started
  walls_returned,   \* the walls when the first _remove_dead_ends() returned
  tetris_grid,      \* TetrisMaze.tetris_grid
  temp_grid,        \* TetrisMaze.generate(): temp_grid
  tile_grid,        \* TetrisMaze.tile_grid
  switch,           \* the symmetry switch the SPACE handler is in, if any
  fresh             \* after the R key: the same generate() with the same
                    \* draws on a freshly constructed Maze of the same
                    \* parameters

params == <<maze_class, width, height, wrap>>
flags == <<is_intersection, is_dead_end>>
dfs == <<start_cell, stack>>
repair == <<changed, cursor, repairs, walls_returned>>
tetris == <<tetris_grid, temp_grid, tile_grid>>

vars == <<pc, params, symmetry, walls, visited, flags, dfs, repair, tetris,
          switch, fresh>>

\* The result of get_cell for coordinates outside a grid that does not wrap.
NoCell == <<-1, -1>>

\* The positions of self.cells, and the order "for x ... for y ..." visits them.
Cells == (0..(width - 1)) \X (0..(height - 1))

CellAt(k) == <<k \div height, k % height>>

\* A grid with no cell: the fields of a Maze that does not exist (yet).
NoGrid == [c \in {} |-> {}]

\* No freshly constructed Maze is run beside the one shown.
NoFresh == [walls |-> NoGrid, visited |-> NoGrid, stack |-> <<>>,
            is_intersection |-> NoGrid, is_dead_end |-> NoGrid]

\* A validation that checks the width only.
DimensionsRejected_width_only(w, h, sym) ==
  sym \in {HORIZONTAL, ROTATIONAL, BOTH} /\ w % 2 # 0

\* Maze.__init__, lines 96-99: the two checks that raise ValueError.
DimensionsRejected(w, h, sym) ==
  \/ sym \in {HORIZONTAL, ROTATIONAL, BOTH} /\ w % 2 # 0
  \/ sym \in {VERTICAL, ROTATIONAL, BOTH} /\ h % 2 # 0

\* A lookup that rejects only the coordinates past the upper bounds, and
\* indexes self.cells with the others as a Python list does.
get_cell_upper_bounds_only(x, y) ==
  IF wrap THEN <<x % width, y % height>>
  ELSE IF x >= width \/ y >= height \/ x < -width \/ y < -height THEN NoCell
  ELSE <<x % width, y % height>>

get_cell(x, y) ==
  IF wrap THEN <<x % width, y % height>>
  ELSE IF x < 0 \/ x >= width \/ y < 0 \/ y >= height THEN NoCell
  ELSE <<x, y>>

get_neighbor(cell, direction) ==
  get_cell(cell[1] + value(direction)[1], cell[2] + value(direction)[2])

\* A removal that takes away the wall on the far side of the cell.
remove_wall_facing(w, c, direction) ==
  [w EXCEPT ![c] = @ \ {opposite(direction)}]

\* A removal that puts the wall back when it is not there.
remove_wall_toggled(w, c, direction) ==
  [w EXCEPT ![c] = IF direction \in @ THEN @ \ {direction}
                   ELSE @ \cup {direction}]

\* Cell.remove_wall on the cell at position c of wall grid w.
remove_wall(w, c, direction) == [w EXCEPT ![c] = @ \ {direction}]

\* Cell.exit_count.
exit_count(w, c) == 4 - Cardinality(w[c])

\* A removal that opens the wall of cell1 and leaves the wall of cell2.
remove_wall_between_one_sided(w, cell1, cell2) ==
  LET direction == from_vector(cell2[1] - cell1[1], cell2[2] - cell1[2])
  IN IF direction = None THEN w ELSE remove_wall(w, cell1, direction)

\* A removal that, across the border of a wrapping grid, opens the wall of
\* cell1 and leaves the wall of cell2.
remove_wall_between_border_one_sided(w, cell1, cell2) ==
  LET dx == cell2[1] - cell1[1]
      dy == cell2[2] - cell1[2]
      direction == from_vector(dx, dy)
  IN IF direction = None
     THEN IF wrap
          THEN IF dx = width - 1 /\ dy = 0 THEN remove_wall(w, cell1, LEFT)
               ELSE IF dx = -(width - 1) /\ dy = 0
               THEN remove_wall(w, cell1, RIGHT)
               ELSE IF dx = 0 /\ dy = height - 1 THEN remove_wall(w, cell1, UP)
               ELSE IF dx = 0 /\ dy = -(height - 1)
               THEN remove_wall(w, cell1, DOWN)
               ELSE w
          ELSE w
     ELSE remove_wall(remove_wall(w, cell1, direction), cell2, opposite(direction))

remove_wall_between(w, cell1, cell2) ==
  LET dx == cell2[1] - cell1[1]
      dy == cell2[2] - cell1[2]
      direction == from_vector(dx, dy)
  IN IF direction = None
     THEN IF wrap
          THEN IF dx = width - 1 /\ dy = 0
               THEN remove_wall(remove_wall(w, cell1, LEFT), cell2, RIGHT)
               ELSE IF dx = -(width - 1) /\ dy = 0
               THEN remove_wall(remove_wall(w, cell1, RIGHT), cell2, LEFT)
               ELSE IF dx = 0 /\ dy = height - 1
               THEN remove_wall(remove_wall(w, cell1, UP), cell2, DOWN)
               ELSE IF dx = 0 /\ dy = -(height - 1)
               THEN remove_wall(remove_wall(w, cell1, DOWN), cell2, UP)
               ELSE w
          ELSE w
     ELSE remove_wall(remove_wall(w, cell1, direction), cell2, opposite(direction))

\* Positions that hold the horizontal mirror whatever the symmetry mode is.
_get_symmetric_cell_always_mirrored(x, y) ==
  IF width - 1 - x # x THEN <<(<<x, y>>), (<<width - 1 - x, y>>)>>
  ELSE <<(<<x, y>>)>>

\* An enumeration that appends the mirrors without comparing them with the
\* position itself.
_get_symmetric_cell_unchecked(x, y) ==
  LET mirror_x == width - 1 - x
      mirror_y == height - 1 - y
      self == <<(<<x, y>>)>>
  IN IF symmetry = HORIZONTAL THEN self \o <<(<<mirror_x, y>>)>>
     ELSE IF symmetry = VERTICAL THEN self \o <<(<<x, mirror_y>>)>>
     ELSE IF symmetry = ROTATIONAL THEN self \o <<(<<mirror_x, mirror_y>>)>>
     ELSE IF symmetry = BOTH
     THEN self \o <<(<<mirror_x, y>>), (<<x, mirror_y>>),
                    (<<mirror_x, mirror_y>>)>>
     ELSE self

_get_symmetric_cell(x, y) ==
  LET mirror_x == width - 1 - x
      mirror_y == height - 1 - y
      self == <<(<<x, y>>)>>
  IN IF symmetry = HORIZONTAL
     THEN self \o (IF mirror_x # x THEN <<(<<mirror_x, y>>)>> ELSE <<>>)
     ELSE IF symmetry = VERTICAL
     THEN self \o (IF mirror_y # y THEN <<(<<x, mirror_y>>)>> ELSE <<>>)
     ELSE IF symmetry = ROTATIONAL
     THEN self \o (IF mirror_x # x \/ mirror_y # y
                   THEN <<(<<mirror_x, mirror_y>>)>> ELSE <<>>)
     ELSE IF symmetry = BOTH
     THEN self \o (IF mirror_x # x THEN <<(<<mirror_x, y>>)>> ELSE <<>>)
               \o (IF mirror_y # y THEN <<(<<x, mirror_y>>)>> ELSE <<>>)
               \o (IF mirror_x # x /\ mirror_y # y
                   THEN <<(<<mirror_x, mirror_y>>)>> ELSE <<>>)
     ELSE self

\* A symmetric removal that keeps the direction at every mirrored position.
symmetric_direction_kept(cell, pos, direction) == direction

\* _apply_symmetric_wall_removal, lines 224-247: the direction carved at the
\* orbit position pos when direction is carved at cell.
symmetric_direction(cell, pos, direction) ==
  LET dx_transform == pos[1] - cell[1]
      dy_transform == pos[2] - cell[2]
  IN IF pos = cell THEN direction
     ELSE IF dx_transform # 0
     THEN (IF direction = LEFT THEN RIGHT
           ELSE IF direction = RIGHT THEN LEFT
           ELSE direction)
     ELSE IF dy_transform # 0
     THEN (IF direction = UP THEN DOWN
           ELSE IF direction = DOWN THEN UP
           ELSE direction)
     ELSE direction

\* _apply_symmetric_wall_removal, lines 218-253: the loop body for one position.
remove_at_position(w, cell, direction, pos) ==
  LET base_cell == get_cell(pos[1], pos[2])
  IN IF base_cell = NoCell THEN w
     ELSE LET neighbor == get_neighbor(base_cell,
                                       symmetric_direction(cell, pos, direction))
          IN IF neighbor = NoCell THEN w
             ELSE remove_wall_between(w, base_cell, neighbor)

RECURSIVE remove_at_positions(_, _, _, _, _)
remove_at_positions(w, cell, direction, positions, i) ==
  IF i > Len(positions) THEN w
  ELSE remove_at_positions(remove_at_position(w, cell, direction, positions[i]),
                           cell, direction, positions, i + 1)

_apply_symmetric_wall_removal(w, cell, direction) ==
  remove_at_positions(w, cell, direction,
                      _get_symmetric_cell(cell[1], cell[2]), 1)

Min(a, b) == IF a < b THEN a ELSE b

\* A reset that leaves the cells the visited flags they have.
reset_visited_kept(v) == v

\* generate, lines 263-266: every cell of the grid v of visited flags is set
\* to not visited.
reset_visited(v) == [p \in Cells |-> FALSE]

\* generate, lines 258-260: the start position after the symmetry adjustment.
adjusted_start(sym, start_x, start_y) ==
  IF sym # NONE
  THEN <<Min(start_x, width \div 2), Min(start_y, height \div 2)>>
  ELSE <<start_x, start_y>>

\* Neighbours taken whether visited or not.
unvisited_neighbors_unfiltered(current) ==
  SelectSeq([i \in 1..4 |-> <<get_neighbor(current, Direction_all[i]),
                              Direction_all[i]>>],
            LAMBDA e : e[1] # NoCell)

\* Neighbours looked for in the directions Up and Down only.
unvisited_neighbors_vertical(current) ==
  SelectSeq([i \in 1..2 |-> <<get_neighbor(current, Direction_all[i]),
                              Direction_all[i]>>],
            LAMBDA e : e[1] # NoCell /\ ~visited[e[1]])

\* generate, lines 280-284: the unvisited neighbours of current, each with the
\* direction that leads to it, in the order of Direction.all().
unvisited_neighbors(current) ==
  SelectSeq([i \in 1..4 |-> <<get_neighbor(current, Direction_all[i]),
                              Direction_all[i]>>],
            LAMBDA e : e[1] # NoCell /\ ~visited[e[1]])

\* generate, lines 307-320: the base cell the reconciliation pass looks up.
base_of(x, y) ==
  LET base_x == IF x < width \div 2 THEN x ELSE width - 1 - x
      base_y == IF y < height \div 2 THEN y ELSE height - 1 - y
  IN IF symmetry = HORIZONTAL THEN get_cell(base_x, y)
     ELSE IF symmetry = VERTICAL THEN get_cell(x, base_y)
     ELSE get_cell(base_x, base_y)

\* generate, lines 302-325: the reconciliation pass from cell index k on, over
\* the pair <<walls, visited>>.
RECURSIVE reconcile_from(_, _)
reconcile_from(wv, k) ==
  IF k >= width * height THEN wv
  ELSE LET cell == CellAt(k)
           base_cell == base_of(cell[1], cell[2])
       IN IF ~wv[2][cell] /\ base_cell # NoCell /\ wv[2][base_cell]
          THEN reconcile_from(<<[wv[1] EXCEPT ![cell] = wv[1][base_cell]],
                                [wv[2] EXCEPT ![cell] = TRUE]>>, k + 1)
          ELSE reconcile_from(wv, k + 1)

\* _remove_dead_ends, lines 352-356: the first direction without a wall.
RECURSIVE first_exit(_, _, _)
first_exit(w, cell, i) ==
  IF i > 4 THEN None
  ELSE IF Direction_all[i] \notin w[cell] THEN Direction_all[i]
  ELSE first_exit(w, cell, i + 1)

\* A dead-end elimination that joins a dead end to any neighbour that exists.
joinable_to_any(w, neighbor) == neighbor # NoCell

\* _remove_dead_ends, line 363: the neighbour a dead end may be joined to.
joinable(w, neighbor) == neighbor # NoCell /\ exit_count(w, neighbor) >= 2

\* _remove_dead_ends, lines 360-367: the first direction whose wall is opened,
\* or None.
RECURSIVE first_joinable(_, _, _, _)
first_joinable(w, cell, exit_dir, i) ==
  IF i > 4 THEN None
  ELSE LET direction == Direction_all[i]
       IN IF /\ direction # exit_dir
             /\ direction \in w[cell]
             /\ joinable(w, get_neighbor(cell, direction))
          THEN direction
          ELSE first_joinable(w, cell, exit_dir, i + 1)

\* _remove_dead_ends, lines 349-367: the direction opened at cell, or None.
repair_direction(w, cell) ==
  IF exit_count(w, cell) = 1
  THEN LET exit_dir == first_exit(w, cell, 1)
       IN IF exit_dir # None THEN first_joinable(w, cell, exit_dir, 1) ELSE None
  ELSE None

\* A dead-end elimination that stops after its first sweep.
sweep_once(ch) == FALSE

\* _remove_dead_ends, line 345: whether another sweep follows.
sweep_again(ch) == ch

\* ---------------------------------------------------------- tetris_maze.py
I == "I"
L == "L"
T == "T"
PLUS == "PLUS"
SQUARE == "SQUARE"

base_width == 5
base_height == 9

\* tetris_to_tiles, lines 89-90.
temp_width == base_width * 3
temp_height == base_height * 3

\* The sets of at most n elements of S.
RECURSIVE AtMost(_, _)
AtMost(S, n) ==
  IF n = 0 THEN {{}}
  ELSE LET smaller == AtMost(S, n - 1)
       IN smaller \cup {A \cup {e} : A \in smaller, e \in S}

\* generate_tetris_grid, lines 66-70: the cells that draw a random piece.
random_cells ==
  {c \in (0..(base_width \div 2)) \X (0..(base_height - 1)) :
     ~(c[1] = 1 /\ c[2] \in {6, 7})}

\* generate_tetris_grid, lines 73-77: the outcomes of the draws, one piece per
\* random cell, at most MaxOpenPieces of them not SQUARE.
PieceDraws ==
  UNION {{[c \in random_cells |-> IF c \in open THEN f[c] ELSE SQUARE] :
            f \in [open -> {I, L, T, PLUS}]} :
         open \in AtMost(random_cells, MaxOpenPieces)}

\* generate_tetris_grid, lines 66-84: the loop from its k-th cell on.
RECURSIVE place_pieces(_, _, _)
place_pieces(grid, draw, k) ==
  IF k >= (base_width \div 2 + 1) * base_height THEN grid
  ELSE LET x == k \div base_height
           y == k % base_height
       IN IF x = 1 /\ y \in {6, 7} THEN place_pieces(grid, draw, k + 1)
          ELSE LET piece == draw[<<x, y>>]
                   placed == [grid EXCEPT ![x][y] = piece]
               IN place_pieces(
                    IF x < base_width \div 2
                    THEN [placed EXCEPT ![base_width - 1 - x][y] = piece]
                    ELSE placed,
                    draw, k + 1)

\* A synthesis that does not assign the fixed cells.
generate_tetris_grid_nothing_fixed(draw) ==
  place_pieces([x \in 0..(base_width - 1) |->
                 [y \in 0..(base_height - 1) |-> SQUARE]],
               draw, 0)

generate_tetris_grid(draw) ==
  LET squares == [x \in 0..(base_width - 1) |->
                   [y \in 0..(base_height - 1) |-> SQUARE]]
  IN place_pieces(IF base_height > 7 /\ base_width > 1
                  THEN [squares EXCEPT ![1][6] = I, ![1][7] = I]
                  ELSE squares,
                  draw, 0)

\* The grid with the value v written to the tiles of the set tiles.
set_tiles(grid, tiles, v) ==
  [x \in DOMAIN grid |->
    [y \in DOMAIN grid[x] |-> IF <<x, y>> \in tiles THEN v ELSE grid[x][y]]]

\* tetris_to_tiles: the random orientations a piece can draw (lines 111, 126,
\* 153-160); SQUARE draws none.
orientations(piece) ==
  CASE piece = I -> {"vertical", "horizontal"}
    [] piece = L -> {"TL", "TR", "BL", "BR"}
    [] piece = T -> {{"up", "left", "right"}, {"up", "left", "down"},
                     {"up", "right", "down"}, {"left", "right", "down"}}
    [] piece = PLUS -> {{"up", "down", "left", "right"}}
    [] OTHER -> {None}

\* tetris_to_tiles, lines 109-170: the tiles a piece that is not SQUARE sets
\* to 0, for the block at <<base_x, base_y>> and the orientation o.
opened_tiles(piece, o, base_x, base_y) ==
  LET centre == IF base_x + 1 < temp_width /\ base_y + 1 < temp_height
                THEN {<<base_x + 1, base_y + 1>>} ELSE {}
      column(x) == {<<x, base_y + dy>> : dy \in {dy \in 0..2 :
                      x < temp_width /\ base_y + dy < temp_height}}
      row(y) == {<<base_x + dx, y>> : dx \in {dx \in 0..2 :
                   base_x + dx < temp_width /\ y < temp_height}}
  IN CASE piece = I ->
            IF o = "vertical" THEN column(base_x + 1) ELSE row(base_y + 1)
       [] piece = L ->
            centre
            \cup (IF o \in {"TL", "TR"} THEN row(base_y) ELSE {})
            \cup (IF o \in {"TL", "BL"} THEN column(base_x) ELSE {})
            \cup (IF o \in {"TR", "BR"} THEN column(base_x + 2) ELSE {})
            \cup (IF o \in {"BL", "BR"} THEN row(base_y + 2) ELSE {})
       [] piece \in {T, PLUS} ->
            centre
            \cup (IF "up" \in o /\ base_y > 0
                  THEN {<<base_x + 1, base_y>>} ELSE {})
            \cup (IF "down" \in o /\ base_y + 2 < temp_height
                  THEN {<<base_x + 1, base_y + 2>>} ELSE {})
            \cup (IF "left" \in o /\ base_x > 0
                  THEN {<<base_x, base_y + 1>>} ELSE {})
            \cup (IF "right" \in o /\ base_x + 2 < temp_width
                  THEN {<<base_x + 2, base_y + 1>>} ELSE {})

\* tetris_to_tiles, lines 97-170: one piece written into the grid.
expand_piece(grid, tx, ty, piece, o) ==
  LET base_x == tx * 3
      base_y == ty * 3
  IN IF piece = SQUARE
     THEN set_tiles(grid,
                    {t \in (base_x..(base_x + 2)) \X (base_y..(base_y + 2)) :
                       t[1] < temp_width /\ t[2] < temp_height},
                    1)
     ELSE set_tiles(grid, opened_tiles(piece, o, base_x, base_y), 0)

\* tetris_to_tiles, line 91: the value temp_grid starts with.
temp_initial == 0

\* tetris_to_tiles, lines 95-170: the grids the loop can reach from the grids
\* gs, from its k-th piece on.
RECURSIVE expand_from(_, _, _)
expand_from(gs, pieces, k) ==
  IF k >= base_width * base_height THEN gs
  ELSE LET tx == k \div base_height
           ty == k % base_height
       IN expand_from({expand_piece(g, tx, ty, pieces[tx][ty], o) :
                         g \in gs, o \in orientations(pieces[tx][ty])},
                      pieces, k + 1)

\* The grids tetris_to_tiles can return.
tetris_to_tiles(pieces) ==
  expand_from({[x \in 0..(temp_width - 1) |->
                 [y \in 0..(temp_height - 1) |-> temp_initial]]},
              pieces, 0)

\* apply_size_adjustments, lines 182-196: int(x / (width / temp_width)) is the
\* floor of x * temp_width / width.
resample(temp) ==
  [x \in 0..(width - 1) |->
    [y \in 0..(height - 1) |->
      temp[Min((x * temp_width) \div width, temp_width - 1)]
          [Min((y * temp_height) \div height, temp_height - 1)]]]

_can_adjust_height(grid, x) ==
  IF x = 0 \/ x = width - 1 THEN FALSE
  ELSE ~\E y \in 1..(height - 2) :
          grid[x - 1][y] = 1 /\ grid[x + 1][y] = 1 /\ grid[x][y] = 0

_can_adjust_width(grid, y) ==
  IF y = 0 \/ y = height - 1 THEN FALSE
  ELSE ~\E x \in 1..(width - 2) :
          grid[x][y - 1] = 1 /\ grid[x][y + 1] = 1 /\ grid[x][y] = 0

\* _apply_height_adjustments, lines 213-218: one column, from row y on.
RECURSIVE heighten_column(_, _)
heighten_column(col, y) ==
  IF y > height - 2 THEN col
  ELSE IF col[y] = 0 /\ y > 0 /\ y < height - 1
  THEN heighten_column([col EXCEPT ![y - 1] = 0, ![y + 1] = 0], y + 1)
  ELSE heighten_column(col, y + 1)

\* _apply_height_adjustments, lines 209-218: the columns from x on.
RECURSIVE heighten_from(_, _)
heighten_from(grid, x) ==
  IF x > width - 2 THEN grid
  ELSE IF _can_adjust_height(grid, x)
  THEN heighten_from([grid EXCEPT ![x] = heighten_column(@, 1)], x + 1)
  ELSE heighten_from(grid, x + 1)

\* A height pass that heightens every column, the two border columns too.
_apply_height_adjustments_with_borders(grid) ==
  [x \in 0..(width - 1) |-> heighten_column(grid[x], 1)]

\* _apply_height_adjustments, lines 206-218.
_apply_height_adjustments(grid) == heighten_from(grid, 1)

\* _apply_width_adjustments, lines 227-232: one row, from column x on.
RECURSIVE narrow_row(_, _, _)
narrow_row(grid, y, x) ==
  IF x > width - 2 THEN grid
  ELSE IF grid[x][y] = 0 /\ x > 0 /\ x < width - 1
  THEN narrow_row([grid EXCEPT ![x - 1][y] = 1, ![x + 1][y] = 1], y, x + 1)
  ELSE narrow_row(grid, y, x + 1)

RECURSIVE narrow_from(_, _)
narrow_from(grid, y) ==
  IF y > height - 2 THEN grid
  ELSE IF _can_adjust_width(grid, y)
  THEN narrow_from(narrow_row(grid, y, 1), y + 1)
  ELSE narrow_from(grid, y + 1)

_apply_width_adjustments(grid) == narrow_from(grid, 1)

\* _smooth_edges, lines 271-279: the wall tiles among the 8 neighbours.
wall_neighbors(grid, x, y) ==
  Cardinality({n \in ((x - 1)..(x + 1)) \X ((y - 1)..(y + 1)) :
                 /\ n # <<x, y>>
                 /\ 0 <= n[1] /\ n[1] < width /\ 0 <= n[2] /\ n[2] < height
                 /\ grid[n[1]][n[2]] = 1})

\* _smooth_edges, lines 269-286: the value a tile gets.
smoothed(grid, x, y) ==
  IF grid[x][y] = 1
  THEN (IF wall_neighbors(grid, x, y) < 2 THEN 0
        ELSE IF wall_neighbors(grid, x, y) > 6 THEN 1
        ELSE grid[x][y])
  ELSE grid[x][y]

RECURSIVE smooth_column(_, _, _)
smooth_column(grid, x, y) ==
  IF y > height - 2 THEN grid
  ELSE IF smoothed(grid, x, y) = grid[x][y]
  THEN smooth_column(grid, x, y + 1)
  ELSE smooth_column([grid EXCEPT ![x][y] = smoothed(grid, x, y)], x, y + 1)

\* The loops below read the grid they have built (DOMAIN) before each further
\* iteration, so that the grid of one iteration is evaluated before the next.
RECURSIVE smooth_from(_, _)
smooth_from(grid, x) ==
  IF x > width - 2 \/ DOMAIN grid = {} THEN grid
  ELSE smooth_from(smooth_column(grid, x, 1), x + 1)

_smooth_edges(grid) == smooth_from(grid, 1)

apply_size_adjustments(temp) ==
  _smooth_edges(_apply_width_adjustments(_apply_height_adjustments(resample(temp))))

\* create_tunnels, lines 291-300: the candidates, in the order of the list.
RECURSIVE candidates_from(_, _)
candidates_from(grid, y) ==
  IF y >= (3 * height) \div 4 THEN <<>>
  ELSE (IF grid[0][y] = 1 /\ grid[1][y] = 0 THEN <<(<<0, y>>)>> ELSE <<>>)
       \o (IF grid[width - 1][y] = 1 /\ grid[width - 2][y] = 0
           THEN <<(<<width - 1, y>>)>> ELSE <<>>)
       \o candidates_from(grid, y + 1)

tunnel_candidates(grid) == candidates_from(grid, height \div 4)

\* create_tunnels, lines 304-305: the outcomes of random.sample, as the set of
\* the candidates picked (the tunnels opened do not depend on their order);
\* the indices sampled are below MaxSampleIndex.
tunnel_samples(candidates, num_tunnels) ==
  LET k == Min(num_tunnels, Len(candidates))
      indices == 1..Min(Len(candidates), MaxSampleIndex)
  IN {{candidates[i] : i \in A} :
        A \in {A \in AtMost(indices, k) : Cardinality(A) = Min(k, Cardinality(indices))}}

\* Tunnels that are not mirrored onto the opposite border.
open_tunnels_one_border(grid, selected_tunnels) ==
  set_tiles(grid, selected_tunnels, 0)

\* create_tunnels, lines 308-316.
open_tunnels(grid, selected_tunnels) ==
  set_tiles(grid,
            selected_tunnels
            \cup {<<width - 1, t[2]>> : t \in {t \in selected_tunnels : t[1] = 0}}
            \cup {<<0, t[2]>> : t \in {t \in selected_tunnels :
                                         t[1] # 0 /\ t[1] = width - 1}},
            0)

\* convert_to_paths, lines 326-342: whether an orthogonal neighbour is 0.
has_path(grid, x, y) ==
  \E d \in Direction :
    LET nx == x + value(d)[1]
        ny == y + value(d)[2]
    IN /\ 0 <= nx /\ nx < width /\ 0 <= ny /\ ny < height
       /\ grid[nx][ny] = 0

convert_to_paths(grid) ==
  [x \in 0..(width - 1) |->
    [y \in 0..(height - 1) |->
      IF /\ 1 <= x /\ x <= width - 2 /\ 1 <= y /\ y <= height - 2
         /\ has_path(grid, x, y)
      THEN 1 ELSE 0]]

\* The grid with the value v written to the tiles of the set tiles, one tile
\* after the other.
RECURSIVE write_tiles(_, _, _)
write_tiles(grid, tiles, v) ==
  IF tiles = {} THEN grid
  ELSE LET t == CHOOSE t \in tiles : TRUE
       IN write_tiles([grid EXCEPT ![t[1]][t[2]] = v], tiles \ {t}, v)

\* convert_to_walls, lines 367-377: the tile <<x, y>> is emptied and its 8
\* neighbours are made walls.
empty_and_surround(wall_grid, x, y) ==
  LET around == {n \in ((x - 1)..(x + 1)) \X ((y - 1)..(y + 1)) :
                   /\ n # <<x, y>>
                   /\ 0 <= n[1] /\ n[1] < width
                   /\ 0 <= n[2] /\ n[2] < height}
  IN write_tiles([wall_grid EXCEPT ![x][y] = 0], around, 1)

RECURSIVE walls_column(_, _, _, _)
walls_column(wall_grid, final_grid, x, y) ==
  IF y >= height \/ DOMAIN wall_grid = {} THEN wall_grid
  ELSE walls_column(IF final_grid[x][y] = 0
                    THEN empty_and_surround(wall_grid, x, y)
                    ELSE wall_grid,
                    final_grid, x, y + 1)

RECURSIVE walls_from(_, _, _)
walls_from(wall_grid, final_grid, x) ==
  IF x >= width \/ DOMAIN wall_grid = {} THEN wall_grid
  ELSE walls_from(walls_column(wall_grid, final_grid, x, 0), final_grid, x + 1)

\* A conversion that empties the path tiles and walls nothing around them.
convert_to_walls_not_surrounded(grid) ==
  [x \in 0..(width - 1) |->
    [y \in 0..(height - 1) |-> IF grid[x][y] = 1 THEN 0 ELSE 1]]

\* convert_to_walls, lines 346-379.
convert_to_walls(grid) ==
  LET final_grid == [x \in 0..(width - 1) |->
                      [y \in 0..(height - 1) |->
                        IF grid[x][y] = 1 THEN 0 ELSE 1]]
  IN walls_from([x \in 0..(width - 1) |-> [y \in 0..(height - 1) |-> 1]],
                final_grid, 0)

\* _convert_to_maze_structure, lines 424-432: the walls of cell <<x, y>> are
\* opened towards its in-grid neighbours that are path tiles, from the i-th
\* direction on.
RECURSIVE open_towards(_, _, _, _, _)
open_towards(w, grid, x, y, i) ==
  IF i > 4 THEN w
  ELSE LET nx == x + value(Direction_all[i])[1]
           ny == y + value(Direction_all[i])[2]
       IN open_towards(
            IF /\ 0 <= nx /\ nx < width /\ 0 <= ny /\ ny < height
               /\ get_cell(nx, ny) # NoCell
               /\ grid[nx][ny] = 0
            THEN remove_wall_between(w, get_cell(x, y), get_cell(nx, ny))
            ELSE w,
            grid, x, y, i + 1)

RECURSIVE structure_column(_, _, _, _)
structure_column(w, grid, x, y) ==
  IF y >= height \/ DOMAIN w = {} THEN w
  ELSE structure_column(IF grid[x][y] = 0 THEN open_towards(w, grid, x, y, 1)
                        ELSE w,
                        grid, x, y + 1)

RECURSIVE structure_from(_, _, _)
structure_from(w, grid, x) ==
  IF x >= width \/ DOMAIN w = {} THEN w
  ELSE structure_from(structure_column(w, grid, x, 0), grid, x + 1)

\* _convert_to_maze_structure, lines 435-443: the tunnels, when the maze wraps.
RECURSIVE stitch_from(_, _, _)
stitch_from(w, grid, y) ==
  IF y >= height \/ DOMAIN w = {} THEN w
  ELSE stitch_from(IF grid[0][y] = 0 /\ grid[width - 1][y] = 0
                   THEN remove_wall_between(w, get_cell(0, y),
                                            get_cell(width - 1, y))
                   ELSE w,
                   grid, y + 1)

\* A conversion that does not give the cells their four walls first: it
\* starts from the cells as Maze.__init__ built them.
_convert_to_maze_structure_without_reset(grid) ==
  LET opened == structure_from([c \in Cells |-> {}], grid, 0)
  IN IF wrap THEN stitch_from(opened, grid, 0) ELSE opened

_convert_to_maze_structure(grid) ==
  LET opened == structure_from([c \in Cells |-> Direction], grid, 0)
  IN IF wrap THEN stitch_from(opened, grid, 0) ELSE opened

\* ------------------------------------------------- the views of a Maze
\* Cell.wall_count.
wall_count(w, c) == Cardinality(w[c])

\* Cell.is_corner: two walls, the first not opposite to the second.
is_corner(w, c) ==
  IF Cardinality(w[c]) # 2 THEN FALSE
  ELSE LET dirs0 == CHOOSE d \in w[c] : TRUE
           dirs1 == CHOOSE d \in w[c] \ {dirs0} : TRUE
       IN opposite(dirs0) # dirs1

\* A classification where the corridor count is not an else branch: every
\* cell that is no intersection is counted as a corridor.
counted_in_without_else(c) ==
  (IF is_intersection[c] THEN {"intersections"}
   ELSE IF is_dead_end[c] THEN {"dead_ends"} ELSE {})
  \cup (IF is_intersection[c] THEN {} ELSE {"corridors"})

\* get_statistics, lines 485-490: the counters incremented for the cell c.
counted_in(c) ==
  IF is_intersection[c] THEN {"intersections"}
  ELSE IF is_dead_end[c] THEN {"dead_ends"}
  ELSE {"corridors"}

\* get_statistics, lines 493-501: the wall-shape counters incremented for c.
shaped_in(c) ==
  IF wall_count(walls, c) = 4 THEN {"walls_i"}
  ELSE IF is_corner(walls, c) THEN {"walls_l"}
  ELSE IF is_intersection[c]
  THEN (IF exit_count(walls, c) = 1 THEN {"walls_t"} ELSE {"walls_plus"})
  ELSE {}

\* get_statistics, line 483, summed over the cells of column x from row y on.
RECURSIVE column_walls(_, _)
column_walls(x, y) ==
  IF y >= height THEN 0
  ELSE wall_count(walls, <<x, y>>) + column_walls(x, y + 1)

\* get_statistics, line 483, summed over the columns from x on.
RECURSIVE total_walls_from(_)
total_walls_from(x) ==
  IF x >= width THEN 0
  ELSE column_walls(x, 0) + total_walls_from(x + 1)

\* get_statistics: the counters of the dictionary it returns.
get_statistics ==
  [total_cells |-> width * height,
   intersections |-> Cardinality({c \in Cells : "intersections" \in counted_in(c)}),
   dead_ends |-> Cardinality({c \in Cells : "dead_ends" \in counted_in(c)}),
   corridors |-> Cardinality({c \in Cells : "corridors" \in counted_in(c)}),
   total_walls |-> total_walls_from(0),
   walls_i |-> Cardinality({c \in Cells : "walls_i" \in shaped_in(c)}),
   walls_l |-> Cardinality({c \in Cells : "walls_l" \in shaped_in(c)}),
   walls_t |-> Cardinality({c \in Cells : "walls_t" \in shaped_in(c)}),
   walls_plus |-> Cardinality({c \in Cells : "walls_plus" \in shaped_in(c)})]

\* to_simple_string, lines 433-440: the character of the cell c.
simple_char(c) ==
  IF wall_count(walls, c) = 4 THEN "#"
  ELSE IF exit_count(walls, c) = 1 THEN "D"
  ELSE IF is_intersection[c] THEN "I"
  ELSE "."

\* to_simple_string: the lines it joins, one per y, each with one character
\* per x.
to_simple_string ==
  [line \in 1..height |-> [column \in 1..width |->
                             simple_char(<<column - 1, line - 1>>)]]

\* get_cell_graph, lines 450-456: the positions listed for the cell c.
graph_neighbors(c) ==
  LET open == SelectSeq(Direction_all,
                        LAMBDA direction :
                          /\ direction \notin walls[c]
                          /\ get_neighbor(c, direction) # NoCell)
  IN [i \in 1..Len(open) |-> get_neighbor(c, open[i])]

get_cell_graph == [c \in Cells |-> graph_neighbors(c)]

\* ------------------------------------ generate() on a freshly built Maze
\* Maze(width, height, wrap, symmetry) is constructed (Cell.__init__, lines
\* 35-40: no wall, not visited, no flag) and generate() runs up to line 274
\* with its default start.
fresh_begin ==
  LET s == adjusted_start(symmetry, 0, 0)
      c == get_cell(s[1], s[2])
  IN [walls |-> [p \in Cells |-> Direction],
      visited |-> [reset_visited([p \in Cells |-> FALSE]) EXCEPT ![c] = TRUE],
      stack |-> <<c>>,
      is_intersection |-> [p \in Cells |-> FALSE],
      is_dead_end |-> [p \in Cells |-> FALSE]]

\* generate, lines 280-284, in the fresh Maze.
fresh_neighbors(current) ==
  SelectSeq([i \in 1..4 |-> <<get_neighbor(current, Direction_all[i]),
                              Direction_all[i]>>],
            LAMBDA e : e[1] # NoCell /\ ~fresh.visited[e[1]])

\* generate, lines 286-295, in the fresh Maze: random.choice returns the
\* element of index i, as it does in the Maze shown.
fresh_carve(i) ==
  IF fresh.stack = <<>> THEN fresh
  ELSE LET current == fresh.stack[Len(fresh.stack)]
           neighbors == fresh_neighbors(current)
       IN IF i > Len(neighbors) THEN fresh
          ELSE [fresh EXCEPT
                  !.walls = _apply_symmetric_wall_removal(fresh.walls, current,
                                                          neighbors[i][2]),
                  !.visited = [fresh.visited EXCEPT ![neighbors[i][1]] = TRUE],
                  !.stack = Append(fresh.stack, neighbors[i][1])]

\* generate, lines 296-298, in the fresh Maze.
fresh_backtrack ==
  IF fresh.stack = <<>> THEN fresh
  ELSE [fresh EXCEPT !.stack = SubSeq(fresh.stack, 1, Len(fresh.stack) - 1)]

\* generate, lines 300-325, in the fresh Maze.
fresh_reconcile ==
  LET wv == IF symmetry # NONE
            THEN reconcile_from(<<fresh.walls, fresh.visited>>, 0)
            ELSE <<fresh.walls, fresh.visited>>
  IN [fresh EXCEPT !.walls = wv[1], !.visited = wv[2]]

\* _analyze_cells, lines 333-340, in the fresh Maze.
fresh_analyze ==
  [fresh EXCEPT !.is_intersection = [c \in Cells |->
                                       exit_count(fresh.walls, c) > 2],
                !.is_dead_end = [c \in Cells |->
                                   exit_count(fresh.walls, c) = 1]]

\* _remove_dead_ends, lines 349-367, in the fresh Maze: one cell of the sweep.
fresh_repair(cell) ==
  LET direction == repair_direction(fresh.walls, cell)
  IN IF direction # None
     THEN [fresh EXCEPT !.walls = remove_wall_between(
                                    fresh.walls, cell,
                                    get_neighbor(cell, direction))]
     ELSE fresh

\* ----------------------------------------------------------------- actions
\* No symmetry switch is under way.
NoSwitch == [from |-> None, to |-> None, walls |-> NoGrid]

\* The arguments of Maze(width, height, wrap, symmetry), from bounded sets.
InitMaze ==
  /\ maze_class = "Maze"
  /\ width \in 1..MaxDim
  /\ height \in 1..MaxDim
  /\ wrap \in BOOLEAN
  /\ symmetry \in SymmetrySet

\* TetrisMaze(), lines 26-40: the arguments it passes to Maze.__init__.
InitTetrisMaze ==
  /\ maze_class = "TetrisMaze"
  /\ width = base_width * 3 + 13
  /\ height = base_height * 3 + 4
  /\ wrap = FALSE
  /\ symmetry = HORIZONTAL

InitFields ==
  /\ pc = "new"
  /\ walls = NoGrid
  /\ visited = NoGrid
  /\ is_intersection = NoGrid
  /\ is_dead_end = NoGrid
  /\ start_cell = NoCell
  /\ stack = <<>>
  /\ changed = FALSE
  /\ cursor = 0
  /\ repairs = 0
  /\ walls_returned = NoGrid
  /\ tetris_grid = NoGrid
  /\ temp_grid = NoGrid
  /\ tile_grid = NoGrid
  /\ switch = NoSwitch
  /\ fresh = NoFresh

Init == (InitMaze \/ InitTetrisMaze) /\ InitFields

\* Maze.__init__: the cells start with no wall; odd dimensions on a mirrored
\* axis raise ValueError and no Maze results.  TetrisMaze.__init__, lines
\* 47-50, adds its two grids.
Construct ==
  /\ pc = "new"
  /\ IF DimensionsRejected(width, height, symmetry)
     THEN /\ pc' = "ValueError"
          /\ UNCHANGED <<walls, visited, flags, tetris>>
     ELSE /\ pc' = "constructed"
          /\ walls' = [c \in Cells |-> {}]
          /\ visited' = [c \in Cells |-> FALSE]
          /\ is_intersection' = [c \in Cells |-> FALSE]
          /\ is_dead_end' = [c \in Cells |-> FALSE]
          /\ IF maze_class = "TetrisMaze"
             THEN /\ tetris_grid' = [x \in 0..(base_width - 1) |->
                                      [y \in 0..(base_height - 1) |-> None]]
                  /\ tile_grid' = [x \in 0..(width - 1) |->
                                    [y \in 0..(height - 1) |-> 0]]
                  /\ UNCHANGED temp_grid
             ELSE UNCHANGED tetris
  /\ UNCHANGED <<params, symmetry, dfs, repair, switch, fresh>>

\* Maze.generate, lines 257-274, called with the start position
\* <<start_x, start_y>> on a maze whose symmetry is sym.  Every cell is reset; a start outside a grid that
\* does not wrap makes get_cell return None and line 273 raise AttributeError.
generate_begin(sym, start_x, start_y) ==
  LET s == adjusted_start(sym, start_x, start_y)
      c == get_cell(s[1], s[2])
  IN /\ walls' = [p \in Cells |-> Direction]
     /\ IF c = NoCell
        THEN /\ pc' = "AttributeError"
             /\ visited' = reset_visited(visited)
             /\ stack' = <<>>
        ELSE /\ pc' = "dfs"
             /\ visited' = [reset_visited(visited) EXCEPT ![c] = TRUE]
             /\ stack' = <<c>>
     /\ start_cell' = c
     /\ repairs' = 0
     /\ walls_returned' = NoGrid
     /\ UNCHANGED <<params, flags, changed, cursor, tetris>>

\* maze.generate(start_x, start_y) on a constructed Maze.
Generate ==
  /\ pc = "constructed"
  /\ maze_class = "Maze"
  /\ width * height <= MaxCells
  /\ \E start_x \in (-1)..width, start_y \in (-1)..height :
       generate_begin(symmetry, start_x, start_y)
  /\ UNCHANGED <<symmetry, switch, fresh>>

\* generate, lines 286-295: carve towards a randomly chosen unvisited neighbour.
Carve ==
  /\ pc = "dfs"
  /\ stack # <<>>
  /\ LET current == stack[Len(stack)]
         neighbors == unvisited_neighbors(current)
     IN /\ neighbors # <<>>
        /\ \E i \in 1..Len(neighbors) :
             /\ walls' = _apply_symmetric_wall_removal(walls, current,
                                                       neighbors[i][2])
             /\ visited' = [visited EXCEPT ![neighbors[i][1]] = TRUE]
             /\ stack' = Append(stack, neighbors[i][1])
             /\ fresh' = IF fresh = NoFresh THEN fresh ELSE fresh_carve(i)
  /\ UNCHANGED <<pc, params, symmetry, flags, start_cell, repair, tetris,
                 switch>>

\* generate, lines 296-298: backtrack; the loop ends when the stack is empty.
Backtrack ==
  /\ pc = "dfs"
  /\ stack # <<>>
  /\ unvisited_neighbors(stack[Len(stack)]) = <<>>
  /\ stack' = SubSeq(stack, 1, Len(stack) - 1)
  /\ pc' = IF Len(stack) = 1 THEN "carved" ELSE "dfs"
  /\ fresh' = IF fresh = NoFresh THEN fresh ELSE fresh_backtrack
  /\ UNCHANGED <<params, symmetry, walls, visited, flags, start_cell, repair,
                 tetris, switch>>

\* generate, lines 300-325: the reconciliation pass.
Reconcile ==
  /\ pc = "carved"
  /\ LET wv == IF symmetry # NONE THEN reconcile_from(<<walls, visited>>, 0)
               ELSE <<walls, visited>>
     IN /\ walls' = wv[1]
        /\ visited' = wv[2]
  /\ pc' = "reconciled"
  /\ fresh' = IF fresh = NoFresh THEN fresh ELSE fresh_reconcile
  /\ UNCHANGED <<params, symmetry, flags, dfs, repair, tetris, switch>>

\* _analyze_cells, lines 333-340.
analyzed_intersection(w) == [c \in Cells |-> exit_count(w, c) > 2]
analyzed_dead_end(w) == [c \in Cells |-> exit_count(w, c) = 1]

\* _analyze_cells, called at line 328; then _remove_dead_ends is entered
\* (lines 344-346: the first sweep begins).
Analyze ==
  /\ pc = "reconciled"
  /\ is_intersection' = analyzed_intersection(walls)
  /\ is_dead_end' = analyzed_dead_end(walls)
  /\ pc' = "repair"
  /\ changed' = FALSE
  /\ cursor' = 0
  /\ repairs' = 1
  /\ fresh' = IF fresh = NoFresh THEN fresh ELSE fresh_analyze
  /\ UNCHANGED <<params, symmetry, walls, visited, dfs, walls_returned,
                 tetris, switch>>

\* _remove_dead_ends, lines 349-367: one cell of the sweep.
RepairCell ==
  /\ pc = "repair"
  /\ cursor < width * height
  /\ LET cell == CellAt(cursor)
         direction == repair_direction(walls, cell)
     IN IF direction # None
        THEN /\ walls' = remove_wall_between(walls, cell,
                                             get_neighbor(cell, direction))
             /\ changed' = TRUE
        ELSE UNCHANGED <<walls, changed>>
  /\ fresh' = IF fresh = NoFresh THEN fresh ELSE fresh_repair(CellAt(cursor))
  /\ cursor' = cursor + 1
  /\ UNCHANGED <<pc, params, symmetry, visited, flags, dfs, repairs,
                 walls_returned, tetris, switch>>

\* _remove_dead_ends, lines 345-347: the end of a sweep; another sweep while
\* changed, else the call returns (and with it generate, or the handler that
\* called generate).
SweepEnd ==
  /\ pc = "repair"
  /\ cursor = width * height
  /\ IF sweep_again(changed)
     THEN /\ changed' = FALSE
          /\ cursor' = 0
          /\ UNCHANGED <<pc, walls_returned>>
     ELSE /\ pc' = "done"
          /\ walls_returned' = IF repairs = 1 THEN walls ELSE walls_returned
          /\ UNCHANGED <<changed, cursor>>
  /\ UNCHANGED <<params, symmetry, walls, visited, flags, dfs, repairs,
                 tetris, switch, fresh>>

\* _remove_dead_ends called once more on the grid generate() returned.
RepairAgain ==
  /\ pc = "done"
  /\ repairs = 1
  /\ pc' = "repair"
  /\ repairs' = 2
  /\ changed' = FALSE
  /\ cursor' = 0
  /\ UNCHANGED <<params, symmetry, walls, visited, flags, dfs,
                 walls_returned, tetris, switch, fresh>>

\* TetrisMaze.generate, line 384: generate_tetris_grid with its random draws.
GenerateTetrisGrid ==
  /\ pc = "constructed"
  /\ maze_class = "TetrisMaze"
  /\ \E draw \in PieceDraws :
       tetris_grid' = generate_tetris_grid(draw)
  /\ pc' = "tetris_grid"
  /\ UNCHANGED <<params, symmetry, walls, visited, flags, dfs, repair,
                 temp_grid, tile_grid, switch, fresh>>

\* TetrisMaze.generate, line 387: tetris_to_tiles with its random orientations.
TetrisToTiles ==
  /\ pc = "tetris_grid"
  /\ temp_grid' \in tetris_to_tiles(tetris_grid)
  /\ pc' = "tiles"
  /\ UNCHANGED <<params, symmetry, walls, visited, flags, dfs, repair,
                 tetris_grid, tile_grid, switch, fresh>>

\* TetrisMaze.generate, line 390: apply_size_adjustments; temp_grid is not
\* used after it.
ApplySizeAdjustments ==
  /\ pc = "tiles"
  /\ tile_grid' = apply_size_adjustments(temp_grid)
  /\ temp_grid' = NoGrid
  /\ pc' = "resized"
  /\ UNCHANGED <<params, symmetry, walls, visited, flags, dfs, repair,
                 tetris_grid, switch, fresh>>

\* TetrisMaze.generate, line 393: create_tunnels with its random selection.
CreateTunnels ==
  /\ pc = "resized"
  /\ \E num_tunnels \in {1, 2} :
       \E selected_tunnels \in tunnel_samples(tunnel_candidates(tile_grid),
                                              num_tunnels) :
         tile_grid' = open_tunnels(tile_grid, selected_tunnels)
  /\ pc' = "tunnels"
  /\ UNCHANGED <<params, symmetry, walls, visited, flags, dfs, repair,
                 tetris_grid, temp_grid, switch, fresh>>

\* TetrisMaze.generate, line 396: convert_to_paths.
ConvertToPaths ==
  /\ pc = "tunnels"
  /\ tile_grid' = convert_to_paths(tile_grid)
  /\ pc' = "paths"
  /\ UNCHANGED <<params, symmetry, walls, visited, flags, dfs, repair,
                 tetris_grid, temp_grid, switch, fresh>>

\* TetrisMaze.generate, line 399: convert_to_walls.
ConvertToWalls ==
  /\ pc = "paths"
  /\ tile_grid' = convert_to_walls(tile_grid)
  /\ pc' = "final_tiles"
  /\ UNCHANGED <<params, symmetry, walls, visited, flags, dfs, repair,
                 tetris_grid, temp_grid, switch, fresh>>

\* TetrisMaze.generate, line 402: _convert_to_maze_structure.
ConvertToMazeStructure ==
  /\ pc = "final_tiles"
  /\ walls' = _convert_to_maze_structure(tile_grid)
  /\ pc' = "maze_structure"
  /\ UNCHANGED <<params, symmetry, visited, flags, dfs, repair, tetris,
                 switch, fresh>>

\* TetrisMaze.generate, line 405: _analyze_cells; generate returns.
TetrisAnalyze ==
  /\ pc = "maze_structure"
  /\ is_intersection' = analyzed_intersection(walls)
  /\ is_dead_end' = analyzed_dead_end(walls)
  /\ pc' = "done"
  /\ UNCHANGED <<params, symmetry, walls, visited, dfs, repair, tetris,
                 switch, fresh>>

Next ==
  \/ Construct
  \/ Generate
  \/ Carve
  \/ Backtrack
  \/ Reconcile
  \/ Analyze
  \/ RepairCell
  \/ SweepEnd
  \/ RepairAgain
  \/ GenerateTetrisGrid
  \/ TetrisToTiles
  \/ ApplySizeAdjustments
  \/ CreateTunnels
  \/ ConvertToPaths
  \/ ConvertToWalls
  \/ ConvertToMazeStructure
  \/ TetrisAnalyze

Spec == Init /\ [][Next]_vars

\* The DFS strategy alone: class Maze.
NextMaze ==
  \/ Construct
  \/ Generate
  \/ Carve
  \/ Backtrack
  \/ Reconcile
  \/ Analyze
  \/ RepairCell
  \/ SweepEnd
  \/ RepairAgain

InitOfMaze == InitMaze /\ InitFields

SpecMaze == InitOfMaze /\ [][NextMaze]_vars

\* A Maze of at most MaxSmallCells cells.
InitSmall ==
  /\ InitMaze
  /\ width * height <= MaxSmallCells
  /\ InitFields

\* generate() runs its statements one after the other until it returns or
\* raises: every step that can be taken is taken.
SpecLive == InitSmall /\ [][NextMaze]_vars /\ WF_vars(NextMaze)

\* render.py, MazeRenderer.run, lines 312-329: SPACE on a Maze that is shown
\* (generate() has returned).  The next mode is assigned and generate() is
\* called with its default start; generate (mazegen.py lines 255-331) has no
\* statement that raises ValueError, so the handler's except branch is never
\* entered.  switch records the mode and the walls before the key press.
KeySpace ==
  /\ pc = "done"
  /\ maze_class = "Maze"
  /\ \E current_index \in 1..Len(Symmetry) :
       /\ Symmetry[current_index] = symmetry
       /\ LET next_index == (current_index % Len(Symmetry)) + 1
              new_symmetry == Symmetry[next_index]
          IN /\ symmetry' = new_symmetry
             /\ switch' = [from |-> symmetry, to |-> new_symmetry,
                           walls |-> walls]
             /\ generate_begin(new_symmetry, 0, 0)
  /\ UNCHANGED fresh

NextKeys ==
  \/ Construct
  \/ Generate
  \/ Carve
  \/ Backtrack
  \/ Reconcile
  \/ Analyze
  \/ RepairCell
  \/ SweepEnd
  \/ KeySpace

SpecKeys == InitSmall /\ [][NextKeys]_vars

\* render.py, MazeRenderer.run, lines 297-299: R on a Maze that is shown
\* calls generate() with its default start.  fresh takes up the same call on
\* a freshly constructed Maze of the same parameters.
KeyR ==
  /\ pc = "done"
  /\ maze_class = "Maze"
  /\ generate_begin(symmetry, 0, 0)
  /\ fresh' = fresh_begin
  /\ UNCHANGED <<symmetry, switch>>

NextRegenerate ==
  \/ Construct
  \/ Generate
  \/ Carve
  \/ Backtrack
  \/ Reconcile
  \/ Analyze
  \/ RepairCell
  \/ SweepEnd
  \/ KeyR

\* A Maze of at most MaxRegenerateCells cells.
InitRegenerate ==
  /\ InitMaze
  /\ width * height <= MaxRegenerateCells
  /\ InitFields

SpecRegenerate == InitRegenerate /\ [][NextRegenerate]_vars

\* ------------------------------------------------- helpers of the properties
\* The position next to c in direction d, without wrapping.
Beside(c, d) == <<c[1] + value(d)[1], c[2] + value(d)[2]>>

swap_left_right(ws) ==
  {IF d = LEFT THEN RIGHT ELSE IF d = RIGHT THEN LEFT ELSE d : d \in ws}

swap_up_down(ws) ==
  {IF d = UP THEN DOWN ELSE IF d = DOWN THEN UP ELSE d : d \in ws}

all_opposite(ws) == {opposite(d) : d \in ws}

MirrorX(c) == <<width - 1 - c[1], c[2]>>
MirrorY(c) == <<c[1], height - 1 - c[2]>>
MirrorXY(c) == <<width - 1 - c[1], height - 1 - c[2]>>

HorizontalLaw == \A c \in Cells : walls[c] = swap_left_right(walls[MirrorX(c)])
VerticalLaw == \A c \in Cells : walls[c] = swap_up_down(walls[MirrorY(c)])
RotationalLaw == \A c \in Cells : walls[c] = all_opposite(walls[MirrorXY(c)])

\* The open edges: unordered pairs of cells with u open towards v.
OpenEdges ==
  {{ud[1], get_neighbor(ud[1], ud[2])} :
     ud \in {p \in Cells \X Direction :
               /\ p[2] \notin walls[p[1]]
               /\ get_neighbor(p[1], p[2]) # NoCell}}

\* The vertices reachable from the set seen over the edges E.
RECURSIVE Reach(_, _)
Reach(seen, E) ==
  LET more == {v \in UNION E : \E e \in E : v \in e /\ e \cap seen # {}}
  IN IF more \subseteq seen THEN seen ELSE Reach(seen \cup more, E)

Connected(V, E) == V = {} \/ \E v \in V : Reach({v}, E) = V

\* A graph without self-loops is acyclic when stripping vertices of degree at
\* most one, again and again, leaves nothing.
RECURSIVE Stripped(_, _)
Stripped(V, E) ==
  LET leaves == {v \in V : Cardinality({e \in E : v \in e}) <= 1}
  IN IF leaves = {} THEN V
     ELSE Stripped(V \ leaves, {e \in E : e \cap leaves = {}})

Acyclic(V, E) == Stripped(V, E) = {}

\* The orbit of a cell under the group of the active symmetry.
Orbit(c) ==
  CASE symmetry = HORIZONTAL -> {c, MirrorX(c)}
    [] symmetry = VERTICAL -> {c, MirrorY(c)}
    [] symmetry = ROTATIONAL -> {c, MirrorXY(c)}
    [] symmetry = BOTH -> {c, MirrorX(c), MirrorY(c), MirrorXY(c)}
    [] OTHER -> {c}

OrbitClasses == {Orbit(c) : c \in Cells}

\* Two distinct classes are joined when some of their members share an open edge.
ClassEdges ==
  {ce \in {{Orbit(u) : u \in e} : e \in OpenEdges} : Cardinality(ce) = 2}

FlagsMatchWalls ==
  \A c \in Cells :
    /\ is_dead_end[c] = (exit_count(walls, c) = 1)
    /\ is_intersection[c] = (exit_count(walls, c) > 2)

\* ------------------------------------------------------------------ claims

\* C1: when generate() has returned, for every cell u and direction d whose
\* in-grid neighbour v exists (no wrapping), u has a wall in d if and only if
\* v has a wall in opposite(d).
C1_WallConsistency ==
  pc = "done" =>
    \A u \in Cells, d \in Direction :
      Beside(u, d) \in Cells =>
        ((d \in walls[u]) <=> (opposite(d) \in walls[Beside(u, d)]))

C1_Witness ==
  /\ pc = "done"
  /\ width = 3 /\ height = 3 /\ symmetry = NONE
  /\ \E u \in Cells : exit_count(walls, u) >= 3

\* C2: when Maze.generate() has returned, the walls obey the law of the active
\* symmetry: Horizontal, Vertical, Rotational, and all three for Both.
C2_SymmetryOrbitEquality ==
  pc = "done" =>
    /\ symmetry \in {HORIZONTAL, BOTH} => HorizontalLaw
    /\ symmetry \in {VERTICAL, BOTH} => VerticalLaw
    /\ symmetry \in {ROTATIONAL, BOTH} => RotationalLaw

\* C3: every generate() that has begun its DFS loop (the construction was
\* accepted and the start is in the grid) returns.
C3_GenerateTerminates == (pc = "dfs") ~> (pc = "done")

\* C5: for wrap = false and symmetry = None, when the DFS loop has ended the
\* open-edge graph has width*height - 1 edges, is connected and is acyclic.
C5_SpanningTree ==
  (pc = "carved" /\ ~wrap /\ symmetry = NONE) =>
    /\ Cardinality(OpenEdges) = width * height - 1
    /\ Connected(Cells, OpenEdges)
    /\ Acyclic(Cells, OpenEdges)

C5_Witness ==
  /\ pc = "carved" /\ ~wrap /\ symmetry = NONE
  /\ width = 3 /\ height = 3
  /\ \E u \in Cells : exit_count(walls, u) = 3

\* C6: under a symmetry, when the DFS loop has ended the graph of orbit
\* classes (two classes joined when some of their members share an open edge)
\* is connected and acyclic.
C6_QuotientSpanningTree ==
  (pc = "carved" /\ symmetry # NONE) =>
    /\ Connected(OrbitClasses, ClassEdges)
    /\ Acyclic(OrbitClasses, ClassEdges)

\* C7: when generate() has returned, every cell has is_dead_end equal to
\* (exit_count() = 1) and is_intersection equal to (exit_count() > 2).
C7_FlagsMatchWalls == pc = "done" => FlagsMatchWalls

\* C8: a second _remove_dead_ends, run right after the first has returned,
\* changes no wall set.
C8_IdempotentRepair == repairs = 2 => walls = walls_returned

\* The second run has returned, and the first run had opened some dead end.
C8_Witness ==
  /\ repairs = 2 /\ pc = "done"
  /\ \E c \in Cells : is_dead_end[c] /\ exit_count(walls, c) # 1

\* C9: construction fails with a validation error exactly when a mirrored axis
\* has an odd dimension, and then no Maze exists; otherwise it succeeds.
C9_ConstructionValidation ==
  pc # "new" =>
    /\ (pc = "ValueError") <=>
         \/ symmetry \in {HORIZONTAL, ROTATIONAL, BOTH} /\ width % 2 = 1
         \/ symmetry \in {VERTICAL, ROTATIONAL, BOTH} /\ height % 2 = 1
    /\ pc = "ValueError" => walls = NoGrid
    /\ pc # "ValueError" => DOMAIN walls = Cells

C9_Witness ==
  pc = "ValueError" /\ width = 7 /\ height = 8 /\ symmetry = HORIZONTAL

\* C10: when SPACE has switched to a mode that needs an even dimension that is
\* odd, after the attempt the symmetry mode and every wall set are as before
\* the key press.
C10_SwitchValidated ==
  (/\ pc = "done"
   /\ switch # NoSwitch
   /\ DimensionsRejected(width, height, switch.to)) =>
    /\ symmetry = switch.from
    /\ walls = switch.walls

\* C11: a generate() call that fails leaves every cell as it was before the
\* call.  The call is made on a constructed Maze (Maze.__init__, lines 35-37:
\* no wall, not visited); when it has raised for a start outside a grid that
\* does not wrap, every cell still has the empty wall set and is not visited.
C11_AllOrNothing ==
  pc = "AttributeError" =>
    \A c \in Cells : walls[c] = {} /\ ~visited[c]

TwoSided(w) ==
  \A u \in Cells, d \in Direction :
    LET v == get_neighbor(u, d)
    IN v # NoCell => ((d \in w[u]) <=> (opposite(d) \in w[v]))

\* C13: with wrap = true, from the reset of generate() on and after every
\* carve of the DFS and every removal of the dead-end elimination, every wall
\* is two-sided, the neighbour taken modulo the dimensions.
C13_WrapWallConsistency ==
  (wrap /\ pc \in {"dfs", "carved", "reconciled", "repair", "done"}) =>
    /\ TwoSided(walls)
    /\ (pc = "dfs" /\ stack # <<>>) =>
         LET current == stack[Len(stack)]
             neighbors == unvisited_neighbors(current)
             positions == _get_symmetric_cell(current[1], current[2])
         IN \A i \in 1..Len(neighbors), k \in 1..Len(positions) :
              TwoSided(remove_at_positions(walls, current, neighbors[i][2],
                                           SubSeq(positions, 1, k), 1))

\* generate() has returned on a wrapping grid of width 3 where a wall across
\* the left and right border has been opened.
C13_Witness ==
  /\ wrap /\ pc = "done" /\ width = 3
  /\ \E c \in Cells : c[1] = 0 /\ LEFT \notin walls[c]

\* C14: once the DFS loop and the reconciliation pass of generate() are over,
\* and so when generate() returns, every cell is visited, whatever the
\* symmetry mode, the wrap setting and the in-grid start.
C14_FullCoverage ==
  pc \in {"reconciled", "repair", "done"} => \A c \in Cells : visited[c]

\* generate() has returned under the symmetry Both, from a start that is not
\* the default one.
C14_Witness ==
  /\ pc = "done" /\ symmetry = BOTH /\ width = 4 /\ height = 2
  /\ start_cell = <<1, 1>>
  /\ \A c \in Cells : visited[c]

\* C15: on every wall grid generate() goes through, for every cell and
\* direction, _apply_symmetric_wall_removal called a second time with the
\* same arguments leaves every wall set as the first call left it.
C15_CarveIdempotent ==
  pc \in {"dfs", "carved", "reconciled", "repair", "done"} =>
    \A cell \in Cells, direction \in Direction :
      LET once == _apply_symmetric_wall_removal(walls, cell, direction)
      IN _apply_symmetric_wall_removal(once, cell, direction) = once

\* Under the symmetry Both on a wrapping grid, a carve that opens a wall of
\* each of the four cells.
C15_Witness ==
  /\ pc = "dfs" /\ symmetry = BOTH /\ wrap
  /\ \E cell \in Cells, direction \in Direction :
       LET once == _apply_symmetric_wall_removal(walls, cell, direction)
       IN Cardinality({c \in Cells : once[c] # walls[c]}) = 4

\* C16: on every Maze, for all coordinates x, y: without wrap get_cell
\* returns no cell when x < 0, x >= width, y < 0 or y >= height; with wrap it
\* returns the cell whose position is in the grid and congruent to (x, y)
\* modulo (width, height); coordinates in the grid return the cell at (x, y).
\* get_cell reads width, height and wrap only, which are set at construction:
\* the lookups are made on the constructed Maze and where generate() has
\* looked up its start and found no cell.
C16_OutOfBoundsAccess ==
  pc \in {"constructed", "AttributeError"} =>
    \A x \in (-MaxCoordinate)..MaxCoordinate,
       y \in (-MaxCoordinate)..MaxCoordinate :
      LET cell == get_cell(x, y)
      IN /\ <<x, y>> \in Cells => cell = <<x, y>>
         /\ (~wrap /\ <<x, y>> \notin Cells) => cell = NoCell
         /\ wrap =>
              /\ cell \in Cells
              /\ \E k \in (-MaxCoordinate)..MaxCoordinate :
                   x = cell[1] + k * width
              /\ \E k \in (-MaxCoordinate)..MaxCoordinate :
                   y = cell[2] + k * height

\* generate() has failed on a start that get_cell found outside the grid, on
\* a grid where looking up (-1, height) with wrap would give (width - 1, 0).
C16_Witness ==
  /\ pc = "AttributeError" /\ ~wrap /\ width = 3 /\ height = 2
  /\ get_cell(-1, height) = NoCell
  /\ get_cell(2, 1) = <<2, 1>>

\* The number of walls, counted direction by direction.
WallsByDirection ==
  LET n(d) == Cardinality({c \in Cells : d \in walls[c]})
  IN n(UP) + n(DOWN) + n(LEFT) + n(RIGHT)

\* C17: on every grid, constructed or returned by generate(),
\* get_statistics() gives intersections + dead_ends + corridors equal to
\* width * height, and total_walls equal to the sum of the wall counts of
\* all cells.
C17_StatisticsPartition ==
  pc \in {"constructed", "done"} =>
    LET stats == get_statistics
    IN /\ stats.intersections + stats.dead_ends + stats.corridors
            = width * height
       /\ stats.total_walls = WallsByDirection

\* A generated grid with cells in each of the three classes.
C17_Witness ==
  /\ pc = "done"
  /\ get_statistics.intersections > 0
  /\ get_statistics.dead_ends > 0
  /\ get_statistics.corridors > 0
  /\ get_statistics.total_walls > 0

\* C18: on a grid returned by generate(), get_statistics() gives walls_i the
\* number of cells with all four walls, walls_l the number of cells with
\* exactly two walls that are not opposite, walls_t the number of cells with
\* exactly 3 exits and walls_plus the number of cells with exactly 4 exits.
C18_WallShapeTaxonomy ==
  pc = "done" =>
    LET stats == get_statistics
    IN /\ stats.walls_i = Cardinality({c \in Cells : walls[c] = Direction})
       /\ stats.walls_l =
            Cardinality({c \in Cells :
                           \E d \in {UP, DOWN}, e \in {LEFT, RIGHT} :
                             walls[c] = {d, e}})
       /\ stats.walls_t = Cardinality({c \in Cells : exit_count(walls, c) = 3})
       /\ stats.walls_plus =
            Cardinality({c \in Cells : exit_count(walls, c) = 4})

\* C19: on a grid returned by generate(), to_simple_string() has one line per
\* y and one character per x: '#' for a cell with four walls, 'D' for exit
\* count 1, 'I' for exit count greater than 2 and '.' otherwise, so that the
\* character depends on the cell's current wall set only.
C19_DenseTextualForm ==
  pc = "done" =>
    to_simple_string =
      [line \in 1..height |-> [column \in 1..width |->
         LET exits == 4 - Cardinality(walls[<<column - 1, line - 1>>])
         IN IF exits = 0 THEN "#"
            ELSE IF exits = 1 THEN "D"
            ELSE IF exits > 2 THEN "I"
            ELSE "."]]

\* The neighbour of c in direction d if c is open towards it, as a list.
OpenTowards(c, d) ==
  IF d \notin walls[c] /\ get_neighbor(c, d) # NoCell
  THEN <<get_neighbor(c, d)>> ELSE <<>>

Listed(graph, p) == {graph[p][i] : i \in 1..Len(graph[p])}

\* C20: on a grid returned by generate(), get_cell_graph() maps every cell
\* position to the positions get_neighbor yields for its directions without
\* wall, those of Up, Down, Left, Right in this order, and q is listed for p
\* exactly when p is listed for q.
C20_ConnectionGraph ==
  pc = "done" =>
    LET graph == get_cell_graph
    IN /\ DOMAIN graph = Cells
       /\ \A c \in Cells :
            graph[c] = OpenTowards(c, UP) \o OpenTowards(c, DOWN)
                         \o OpenTowards(c, LEFT) \o OpenTowards(c, RIGHT)
       /\ \A p \in Cells, q \in Cells :
            (q \in Listed(graph, p)) <=> (p \in Listed(graph, q))

\* On a returned wrapping grid of width 3, a cell of the left border lists
\* three neighbours, the one across the border among them.
C20_Witness ==
  /\ pc = "done" /\ wrap /\ width = 3
  /\ \E c \in Cells :
       /\ c[1] = 0
       /\ Len(get_cell_graph[c]) = 3
       /\ <<2, c[2]>> \in Listed(get_cell_graph, c)

\* C21: after generate_tetris_grid(), for every column x and row y of the
\* seed grid, tetris_grid[x][y] = tetris_grid[base_width - 1 - x][y].
C21_SeedGridMirrorSymmetric ==
  pc = "tetris_grid" =>
    \A x \in 0..(base_width - 1), y \in 0..(base_height - 1) :
      tetris_grid[x][y] = tetris_grid[base_width - 1 - x][y]

\* C22: after generate_tetris_grid(), the fixed cells tetris_grid[1][6] and
\* tetris_grid[1][7] hold the piece I, whatever the draws.
C22_FixedSeedCellsWin ==
  pc = "tetris_grid" => tetris_grid[1][6] = I /\ tetris_grid[1][7] = I

\* A synthesis that drew a piece other than SQUARE for a neighbour of a fixed
\* cell.
C22_Witness ==
  /\ pc = "tetris_grid"
  /\ tetris_grid[1][5] = PLUS
  /\ tetris_grid[1][6] = I

\* The path tiles of the 3x3 block of the seed cell <<tx, ty>>, as offsets
\* within the block.
BlockPaths(tx, ty) ==
  {d \in (0..2) \X (0..2) : temp_grid[tx * 3 + d[1]][ty * 3 + d[2]] = 0}

EdgeMidpoints == {<<1, 0>>, <<1, 2>>, <<0, 1>>, <<2, 1>>}

\* C23: in the grid tetris_to_tiles() returns, the block of a SQUARE has nine
\* wall tiles; that of an I has the middle row or the middle column as path
\* and six wall tiles; that of a T has the centre and three of the four edge
\* midpoints as path and the rest wall; that of a PLUS has the centre and
\* the four edge midpoints as path and the four corners wall.
C23_PieceToTileExpansion ==
  pc = "tiles" =>
    \A tx \in 0..(base_width - 1), ty \in 0..(base_height - 1) :
      LET piece == tetris_grid[tx][ty]
          paths == BlockPaths(tx, ty)
      IN /\ piece = SQUARE => paths = {}
         /\ piece = I => \/ paths = {1} \X (0..2)
                         \/ paths = (0..2) \X {1}
         /\ piece = T => \E e \in EdgeMidpoints :
                           paths = {<<1, 1>>} \cup (EdgeMidpoints \ {e})
         /\ piece = PLUS => paths = {<<1, 1>>} \cup EdgeMidpoints

\* The rows create_tunnels scans.
MiddleRows == (height \div 4)..((3 * height) \div 4 - 1)

\* The border wall tiles of the grid whose inward neighbour is a path tile.
Candidates(grid) ==
  {<<0, y>> : y \in {y \in MiddleRows : grid[0][y] = 1 /\ grid[1][y] = 0}}
  \cup {<<width - 1, y>> :
          y \in {y \in MiddleRows :
                   grid[width - 1][y] = 1 /\ grid[width - 2][y] = 0}}

Changed(before, after) ==
  {t \in (0..(width - 1)) \X (0..(height - 1)) :
     before[t[1]][t[2]] # after[t[1]][t[2]]}

TunnelFrame(before, after) ==
  LET changes == Changed(before, after)
      rows == {t[2] : t \in changes}
  IN /\ \A t \in changes :
          /\ t[1] \in {0, width - 1}
          /\ t[2] \in MiddleRows
          /\ after[t[1]][t[2]] = 0
          /\ \E c \in Candidates(before) : c[2] = t[2]
     /\ Cardinality(rows) <= 2
     /\ Candidates(before) # {} => rows # {}
     /\ \A y \in rows : after[0][y] = 0 /\ after[width - 1][y] = 0
     /\ Candidates(before) = {} => after = before

\* C24: create_tunnels() changes only tiles of the left and right border
\* columns in the middle rows, opens only tiles of rows that hold a
\* candidate, opens at most 2 rows and at least one when a candidate exists,
\* leaves both border tiles of every opened row path, and changes nothing
\* when there is no candidate.
C24_TunnelCarving ==
  [][(pc = "resized" /\ pc' = "tunnels") => TunnelFrame(tile_grid, tile_grid')]_vars

\* create_tunnels() has opened a tunnel: a middle row has both its border
\* tiles path, which no grid has after apply_size_adjustments().
C24_Witness ==
  /\ pc = "tunnels"
  /\ \E y \in MiddleRows : tile_grid[0][y] = 0 /\ tile_grid[width - 1][y] = 0

\* The tile grid after convert_to_paths() and convert_to_walls() keeps the
\* corridors of the tile grid before them.
KeepsCorridors(before, after) ==
  \A x \in 0..(width - 1), y \in 0..(height - 1) :
    /\ before[x][y] = 0 => after[x][y] = 0
    /\ (before[x][y] = 1 /\ has_path(before, x, y)) => after[x][y] = 1

\* C25: convert_to_paths() followed by convert_to_walls(), run on the tile
\* grid create_tunnels() has left, keeps every path tile a path tile and
\* every wall tile that is orthogonally adjacent to a path tile a wall tile.
C25_StageKeepsCorridors ==
  pc = "tunnels" =>
    KeepsCorridors(tile_grid, convert_to_walls(convert_to_paths(tile_grid)))

\* The wall grid w is the bridge of the tile grid: a cell has no wall towards
\* an in-grid neighbour exactly when both tiles are path tiles, and it has
\* every wall that faces outside the grid.
Bridged(grid, w) ==
  \A c \in Cells, d \in Direction :
    LET n == Beside(c, d)
    IN IF n \in Cells
       THEN (d \notin w[c]) <=> (grid[c[1]][c[2]] = 0 /\ grid[n[1]][n[2]] = 0)
       ELSE d \in w[c]

\* C26: after _convert_to_maze_structure(), for every cell and direction
\* with an in-grid neighbour the cell has no wall in the direction exactly
\* when its tile and the neighbour's tile are path tiles, and every wall
\* facing outside the grid is set.  The same holds of what
\* _convert_to_maze_structure makes of the tile grids of the earlier stages,
\* which have adjacent path tiles.
C26_BridgeToGrid ==
  /\ pc = "maze_structure" => Bridged(tile_grid, walls)
  /\ pc \in {"resized", "tunnels"} =>
       Bridged(tile_grid, _convert_to_maze_structure(tile_grid))

\* _convert_to_maze_structure() has run on a tile grid with path tiles.
C26_Witness ==
  /\ pc = "maze_structure"
  /\ \E c \in Cells : tile_grid[c[1]][c[2]] = 0 /\ walls[c] = Direction
  /\ \E c \in Cells : tile_grid[c[1]][c[2]] = 1

\* The tiles of the final grid whose nearest-neighbour resample source lies
\* in the 3x3 blocks of the fixed seed cells (1,6) and (1,7).
FixedTargets ==
  {t \in (0..(width - 1)) \X (0..(height - 1)) :
     /\ (t[1] * temp_width) \div width \in 3..5
     /\ (t[2] * temp_height) \div height \in 18..23}

\* C27: after TetrisMaze.generate(), whatever the draws, some tile among the
\* targets of the fixed seed cells is a path tile of the final tile grid.
C27_FixedCorridorSurvives ==
  (maze_class = "TetrisMaze" /\ pc = "done") =>
    \E t \in FixedTargets : tile_grid[t[1]][t[2]] = 0

\* C28: when _apply_symmetric_wall_removal(A, d) runs in the DFS, the
\* direction carved at an orbit mate of A that differs from A in x only is d
\* with Left and Right swapped, at a mate that differs in y only it is d with
\* Up and Down swapped, and at a mate that differs in both it is opposite(d).
C28_DirectionMapping ==
  (pc = "dfs" /\ stack # <<>>) =>
    LET A == stack[Len(stack)]
        neighbors == unvisited_neighbors(A)
        positions == _get_symmetric_cell(A[1], A[2])
    IN \A i \in 1..Len(neighbors), k \in 1..Len(positions) :
         LET d == neighbors[i][2]
             mate == positions[k]
             carved == symmetric_direction(A, mate, d)
         IN /\ (mate[1] # A[1] /\ mate[2] = A[2]) =>
                 {carved} = swap_left_right({d})
            /\ (mate[1] = A[1] /\ mate[2] # A[2]) =>
                 {carved} = swap_up_down({d})
            /\ (mate[1] # A[1] /\ mate[2] # A[2]) => carved = opposite(d)

Members(list) == {list[i] : i \in 1..Len(list)}

\* C29: on every Maze, for every in-grid (x, y), _get_symmetric_cell(x, y)
\* is a list without duplicates whose first entry is (x, y) and whose set is
\* the orbit of (x, y) under the symmetry mode, and the list of every member
\* has the same set.
C29_OrbitEnumeration ==
  pc \notin {"new", "ValueError"} =>
    \A c \in Cells :
      LET cells == _get_symmetric_cell(c[1], c[2])
      IN /\ cells[1] = c
         /\ Cardinality(Members(cells)) = Len(cells)
         /\ Members(cells) = Orbit(c)
         /\ \A mate \in Members(cells) :
              Members(_get_symmetric_cell(mate[1], mate[2])) = Members(cells)

\* Under the symmetry Both on a grid of width 3 and height 1, the middle cell
\* is its own mirror and a border cell has one mate.
C29_Witness ==
  /\ pc = "dfs" /\ symmetry = BOTH /\ width = 3 /\ height = 1
  /\ Len(_get_symmetric_cell(1, 0)) = 1
  /\ Len(_get_symmetric_cell(0, 0)) = 2

\* C30: on a constructed Maze whose symmetry is not None, for every requested
\* in-grid start the start generate() uses has its column below width / 2
\* under Horizontal and Both, and its row below height / 2 under Vertical
\* and Both.
C30_StartCellClamp ==
  (pc = "constructed" /\ symmetry # NONE) =>
    \A requested \in Cells :
      LET used == adjusted_start(symmetry, requested[1], requested[2])
      IN /\ symmetry \in {HORIZONTAL, BOTH} => 2 * used[1] < width
         /\ symmetry \in {VERTICAL, BOTH} => 2 * used[2] < height

\* The cells with exit count 1 in the wall sets w.
DeadEnds(w) == {c \in Cells : exit_count(w, c) = 1}

\* C31: during _remove_dead_ends no step lowers the exit count of any cell or
\* gives exit count 1 to a cell that did not have it, so the number of cells
\* with exit count 1 never grows from one step of a sweep to the next, nor
\* from the end of one sweep to the end of the following one.
C31_DeadEndsNeverIncrease ==
  [][pc = "repair" =>
       /\ \A c \in Cells : exit_count(walls', c) >= exit_count(walls, c)
       /\ DeadEnds(walls') \subseteq DeadEnds(walls)
       /\ Cardinality(DeadEnds(walls')) <= Cardinality(DeadEnds(walls))]_vars

\* A second sweep has begun after a sweep that opened a wall, and fewer cells
\* have exit count 1 than _analyze_cells flagged.
C31_Witness ==
  /\ pc = "repair"
  /\ cursor = 0
  /\ repairs = 1
  /\ walls # [c \in Cells |-> Direction]
  /\ \E c \in Cells : is_dead_end[c] /\ c \notin DeadEnds(walls)
  /\ DeadEnds(walls) # {}

\* The wall sets w with the wall of cell towards d and the facing wall of its
\* neighbour taken away, every other cell as it was.
OpenedAt(w, cell, d) ==
  [c \in Cells |->
     IF c = cell THEN w[c] \ {d}
     ELSE IF c = get_neighbor(cell, d) THEN w[c] \ {opposite(d)}
     ELSE w[c]]

\* An exit-count-1 cell of w that _remove_dead_ends would still join to a
\* neighbour: one of its blocked directions leads to a cell with exit count
\* >= 2.
Repairable(w, c) ==
  /\ exit_count(w, c) = 1
  /\ \E d \in w[c] :
       /\ get_neighbor(c, d) # NoCell
       /\ exit_count(w, get_neighbor(c, d)) >= 2

\* C32: a step of _remove_dead_ends that changes the walls opens one wall, at
\* the cell under the cursor, whose exit count is 1 before the step, in a
\* direction blocked before the step, towards a neighbour whose exit count is
\* >= 2 before the step, and changes the wall sets of those two cells only;
\* when _remove_dead_ends has returned, no exit-count-1 cell has a blocked
\* direction whose neighbour exists and has exit count >= 2.
C32_RepairRuleAndResidue ==
  /\ [][(pc = "repair" /\ walls' # walls) =>
          LET cell == CellAt(cursor)
          IN /\ cursor < width * height
             /\ exit_count(walls, cell) = 1
             /\ \E d \in walls[cell] :
                  /\ get_neighbor(cell, d) # NoCell
                  /\ get_neighbor(cell, d) # cell
                  /\ exit_count(walls, get_neighbor(cell, d)) >= 2
                  /\ walls' = OpenedAt(walls, cell, d)]_vars
  /\ [](pc = "done" => \A c \in Cells : ~Repairable(walls, c))

\* _remove_dead_ends has returned after opening a wall at a flagged dead end,
\* and a cell with exit count 1 remains.
C32_Witness ==
  /\ pc = "done"
  /\ repairs = 1
  /\ DeadEnds(walls) # {}
  /\ \E c \in Cells : is_dead_end[c] /\ exit_count(walls, c) >= 2

\* The tile grid as _apply_height_adjustments finds it on reaching column x:
\* the columns left of x as the pass leaves them, the others as they were.
SeenAt(before, after, x) ==
  [c \in 0..(width - 1) |-> IF c < x THEN after[c] ELSE before[c]]

\* No tile that is wall in before and path in after lies between a wall tile
\* on its left and a wall tile on its right in after.
NoUnevenWall(before, after) ==
  \A t \in Changed(before, after) :
    (after[t[1]][t[2]] = 0 /\ t[1] >= 1 /\ t[1] <= width - 2) =>
      ~(after[t[1] - 1][t[2]] = 1 /\ after[t[1] + 1][t[2]] = 1)

\* C33: _apply_height_adjustments(), run on the resampled tile grid, leaves no
\* tile it turned from wall into path between a wall tile on its left and a
\* wall tile on its right, and leaves unchanged every column for which
\* _can_adjust_height is false, be it on the grid the pass starts from or on
\* the grid the pass has built when it reaches the column.
C33_HeightAdjustments ==
  pc = "tiles" =>
    LET before == resample(temp_grid)
        after == _apply_height_adjustments(before)
    IN /\ NoUnevenWall(before, after)
       /\ \A x \in 0..(width - 1) :
            \/ after[x] = before[x]
            \/ /\ _can_adjust_height(before, x)
               /\ _can_adjust_height(SeenAt(before, after, x), x)

\* The pass turns a wall tile into a path tile, and the left border column,
\* which is not adjustable, holds a path tile below a wall tile.
C33_Witness ==
  /\ pc = "tiles"
  /\ LET before == resample(temp_grid)
         after == _apply_height_adjustments(before)
     IN /\ \E t \in Changed(before, after) :
             before[t[1]][t[2]] = 1 /\ after[t[1]][t[2]] = 0
        /\ ~_can_adjust_height(before, 0)
        /\ \E y \in 1..(height - 2) : before[0][y] = 0 /\ before[0][y - 1] = 1

\* C34: for symmetry HORIZONTAL and for symmetry VERTICAL, in every state of
\* the DFS main loop of generate() and when the loop has ended, before the
\* later passes, every cell's wall set equals its mirror cell's wall set with
\* LEFT and RIGHT swapped (HORIZONTAL) or UP and DOWN swapped (VERTICAL).
C34_SymmetryWhileCarving ==
  pc \in {"dfs", "carved"} =>
    /\ symmetry = HORIZONTAL => HorizontalLaw
    /\ symmetry = VERTICAL => VerticalLaw

\* The DFS loop runs on a HORIZONTAL maze at least four cells wide and has
\* carved a cell open to the left but not to the right.
C34_Witness ==
  /\ pc = "dfs"
  /\ symmetry = HORIZONTAL
  /\ width >= 4
  /\ \E c \in Cells : LEFT \notin walls[c] /\ RIGHT \in walls[c]

\* Every cell has its wall in every direction that leaves the grid.
BorderClosed(w) ==
  \A c \in Cells, d \in Direction : Beside(c, d) \notin Cells => d \in w[c]

\* The states of a run of generate() from the point where it has given every
\* cell its four walls: the DFS strategy from its reset on, the piece
\* pipeline from _convert_to_maze_structure on.
WallsGenerated ==
  \/ maze_class = "Maze" /\ pc \in {"dfs", "carved", "reconciled", "repair", "done"}
  \/ maze_class = "TetrisMaze" /\ pc \in {"maze_structure", "done"}

\* C35: with wrap = false, in every state during and after generate() from the
\* point where generate() has given the cells their walls (DFS strategy with
\* any symmetry, and the piece pipeline), every cell on the grid border has
\* its wall in each direction that points outside the grid.
C35_BorderStaysClosed ==
  (~wrap /\ WallsGenerated) => BorderClosed(walls)

\* Dead-end elimination has opened a wall on a mirrored grid that does not
\* wrap, and a border cell has two open walls.
C35_Witness ==
  /\ ~wrap
  /\ pc = "repair"
  /\ changed
  /\ symmetry # NONE
  /\ \E c \in Cells : c[1] = 0 /\ exit_count(walls, c) >= 2

\* The edges of the graph get_cell_graph returns: a cell and a cell its list
\* holds.
GraphEdges ==
  UNION {{{p, get_cell_graph[p][i]} : i \in 1..Len(get_cell_graph[p])} :
           p \in Cells}

\* C36: when Maze.generate() has returned on a grid of more than one cell,
\* whatever the symmetry and the wrap setting, every cell has exit count >= 1
\* and every cell is reachable from the start cell over the edges of
\* get_cell_graph.
C36_ResultConnected ==
  (pc = "done" /\ maze_class = "Maze" /\ width * height > 1) =>
    /\ \A c \in Cells : exit_count(walls, c) >= 1
    /\ Reach({start_cell}, GraphEdges) = Cells

\* generate() has returned on a wrapping, mirrored grid of at least six cells
\* whose start cell is not the first cell.
C36_Witness ==
  /\ pc = "done"
  /\ maze_class = "Maze"
  /\ wrap
  /\ symmetry # NONE
  /\ width * height >= 6
  /\ start_cell # <<0, 0>>
  /\ Reach({start_cell}, GraphEdges) = Cells

\* The cells whose visited flag is set in v.
Visited(v) == {c \in Cells : v[c]}

\* The stack holds pairwise distinct Visited cells, its bottom is the start
\* cell, and each cell on it is joined to the next by an open edge.
StackLaw ==
  /\ stack # <<>>
  /\ stack[1] = start_cell
  /\ \A i \in 1..Len(stack) : stack[i] \in Visited(visited)
  /\ \A i \in 1..Len(stack), j \in 1..Len(stack) :
       i # j => stack[i] # stack[j]
  /\ \A i \in 1..(Len(stack) - 1) :
       /\ {stack[i], stack[i + 1]} \in OpenEdges
       /\ \E d \in Direction :
            /\ get_neighbor(stack[i], d) = stack[i + 1]
            /\ d \notin walls[stack[i]]
            /\ opposite(d) \notin walls[stack[i + 1]]

\* C37: with wrap = false and symmetry = None, in every state of the DFS main
\* loop the stack holds pairwise distinct Visited cells, its bottom is the
\* start cell, each consecutive pair on it is joined by an open edge, and the
\* open edges are one fewer than the Visited cells; every step of the loop
\* either pushes a cell that was not Visited before, marks it Visited and
\* opens exactly the one edge between the old top and that cell, or pops the
\* top and changes no wall and no visited flag; no cell ever stops being
\* Visited, so no cell is pushed twice.
C37_StackInvariant ==
  /\ []((pc = "dfs" /\ ~wrap /\ symmetry = NONE) =>
          /\ StackLaw
          /\ Cardinality(OpenEdges) = Cardinality(Visited(visited)) - 1)
  /\ [][(pc = "dfs" /\ ~wrap /\ symmetry = NONE) =>
          IF Len(stack') > Len(stack)
          THEN LET top == stack[Len(stack)]
                   pushed == stack'[Len(stack')]
               IN /\ stack' = Append(stack, pushed)
                  /\ pushed \notin Visited(visited)
                  /\ Visited(visited') = Visited(visited) \cup {pushed}
                  /\ {top, pushed} \notin OpenEdges
                  /\ OpenEdges' = OpenEdges \cup {{top, pushed}}
          ELSE /\ stack' = SubSeq(stack, 1, Len(stack) - 1)
               /\ walls' = walls
               /\ visited' = visited]_vars

\* The DFS loop on a 3x3 grid without wrap or symmetry has backtracked from a
\* cell and gone on from an earlier one: fewer cells are on the stack than
\* are Visited, and the stack is four cells deep.
C37_Witness ==
  /\ pc = "dfs" /\ ~wrap /\ symmetry = NONE
  /\ width = 3 /\ height = 3
  /\ Len(stack) = 4
  /\ Cardinality(Visited(visited)) = 7
  /\ stack[1] # <<0, 0>>

\* C38: at the moment the DFS main loop of generate() ends every cell is
\* Visited, whatever the symmetry mode and the wrap setting, and the symmetry
\* post-pass that follows replaces the wall set of no cell and changes no
\* visited flag.
C38_ReconciliationInert ==
  /\ [](pc = "carved" => \A c \in Cells : visited[c])
  /\ [][pc = "carved" =>
          /\ pc' = "reconciled"
          /\ walls' = walls
          /\ visited' = visited]_vars

\* The post-pass has run on a wrapping grid of at least six cells under the
\* point mirror, where some cell and its base cell hold different wall sets.
C38_Witness ==
  /\ pc = "reconciled"
  /\ symmetry = ROTATIONAL
  /\ wrap
  /\ width * height >= 6
  /\ \E c \in Cells :
       /\ base_of(c[1], c[2]) # NoCell
       /\ walls[c] # walls[base_of(c[1], c[2])]

\* The tiles of the grid.
Tiles == (0..(width - 1)) \X (0..(height - 1))

\* Two different tiles that touch by a side or by a corner.
EightNeighbours(s, t) ==
  /\ s # t
  /\ s[1] - t[1] \in -1..1
  /\ s[2] - t[2] \in -1..1

\* No two path tiles of grid are 8-neighbours and every border tile is wall.
IsolatedPaths(grid) ==
  /\ \A s \in Tiles :
       grid[s[1]][s[2]] = 0 =>
         \A t \in Tiles : EightNeighbours(s, t) => grid[t[1]][t[2]] = 1
  /\ \A t \in Tiles :
       (t[1] \in {0, width - 1} \/ t[2] \in {0, height - 1}) =>
         grid[t[1]][t[2]] = 1

\* C39: in the tile grid convert_to_walls() leaves no two path tiles are
\* 8-neighbours of each other and every tile on the outer border is wall, and
\* from _convert_to_maze_structure() on, so after TetrisMaze.generate(), every
\* cell of the grid holds all four walls, whatever the random draws.
C39_PipelineHasNoOpenEdge ==
  maze_class = "TetrisMaze" =>
    /\ pc \in {"final_tiles", "maze_structure", "done"} =>
         IsolatedPaths(tile_grid)
    /\ pc \in {"maze_structure", "done"} =>
         \A c \in Cells : walls[c] = Direction /\ exit_count(walls, c) = 0

\* TetrisMaze.generate() has returned with a tile grid that holds path tiles,
\* a drawn piece among the pieces of the seed grid.
C39_Witness ==
  /\ maze_class = "TetrisMaze"
  /\ pc = "done"
  /\ \E t \in Tiles : tile_grid[t[1]][t[2]] = 0
  /\ \E x \in 0..(base_width - 1), y \in 0..(base_height - 1) :
       tetris_grid[x][y] = PLUS
  /\ \A c \in Cells : walls[c] = Direction

====
